---- MODULE Spec2Model ----
(***************************************************************************)
(* Trial lifecycle and subscription state engine of the SaaS backend kit:  *)
(* AuthService.register, AccountService, SubscriptionService, the          *)
(* trial-expiration queue (BullMQ) and its worker processTrialExpiration.  *)
(*                                                                         *)
(* Password login (with TOTP), the password reset flow and the Account's   *)
(* own trial arithmetic are modelled beside them.                          *)
(*                                                                         *)
(* Time is counted in milliseconds, as Date.getTime() counts it.           *)
(* Every handler is one atomic action.  Data store, queue and cache are    *)
(* available; the payment provider may fail on any call.                   *)
(***************************************************************************)
EXTENDS Integers, FiniteSets, Sequences, Bags, TLC

\* ---------------------------------------------------------------- bounds
\* last day the clock reaches
MaxTime == 1
\* config.TRIAL_DAYS as configured for the runs (env TRIAL_DAYS, default 14)
TRIAL_DAYS == 1
\* number of jobs the worker may re-enqueue with a generated id
MaxAutoJobs == 1
\* number of accounts that sign up
MaxAccounts == 1

\* one day, in milliseconds
DAY == 24 * 60 * 60 * 1000

\* ------------------------------------------------------------- universes
\* ids are handed out in this order; one id more than is handed out stands
\* for the ids of no document
AccountIdOrder == <<"acc1", "acc2", "acc3">>
SubscriptionIdOrder == <<"sub1", "sub2", "sub3">>
AccountIds == {AccountIdOrder[i] : i \in 1..(MaxAccounts + 1)}
SubscriptionIds == {SubscriptionIdOrder[i] : i \in 1..(MaxAccounts + 1)}
PaymentProviderNames == {"stripe"}
Emails == {"a@x.com", "A@X.COM"}
PlanTypes == {"free", "pro", "enterprise"}
Statuses == {"active", "cancelled", "past_due", "trialing", "expired"}

\* `undefined` for optional dates and optional strings
NoDate == -1
NoId == "undefined"

\* String.prototype.toLowerCase on the e-mail addresses of the model
ToLowerCase(s) ==
    CASE s = "A@X.COM" -> "a@x.com"
      [] OTHER -> s

\* default job options of the trial-expiration queue
attempts == 3

\* a factory that also has a provider for locally tracked subscriptions
providers_WithLocal == {"stripe", "local"}

\* providers registered with PaymentProviderFactory (keys are lower-cased)
providers == {"stripe"}

\* PaymentProviderFactory.getProvider: does the lookup find a factory?
getProviderFound(providerName) == ToLowerCase(providerName) \in providers

\* Subscription.getDefaultFeatures
getDefaultFeatures(planType) ==
    CASE planType = "free" ->
           [itemsPerMonth |-> 5, exportOptions |-> <<"pdf">>, prioritySupport |-> FALSE]
      [] planType = "pro" ->
           [itemsPerMonth |-> 50, exportOptions |-> <<"pdf", "png", "svg">>, prioritySupport |-> TRUE]
      [] OTHER ->
           [itemsPerMonth |-> -1, exportOptions |-> <<"pdf", "png", "svg">>, prioritySupport |-> TRUE]

\* ------------------------------------------------------------------ state
VARIABLES
    now,            \* the clock: new Date().getTime()
    accounts,       \* Account collection: id -> document
    users,          \* User collection: stored (lower-cased) email -> document
    subscriptions,  \* Subscription collection: id -> document
    cache,          \* Redis cache: account id -> JSON text of `subscription:<id>`
    queue,          \* trial-expiration queue: job id -> job
    autoJobs,       \* number of job ids the queue has generated
    activities,     \* activity log: bag of [accountId, activityType]
    outbox,         \* messages handed to the e-mail and SMS providers
    inflight,       \* calls between two of their awaits: call id -> its locals
    result          \* outcome of the last call

vars == <<now, accounts, users, subscriptions, cache, queue, autoJobs, activities, outbox,
          inflight, result>>

\* the outcome of a call: what ran, for which account, the error thrown
\* ("none" when it returned), and whether a payment provider method was called
Outcome(op, accountId, error, providerCalled) ==
    [op |-> op, accountId |-> accountId, error |-> error, providerCalled |-> providerCalled]

\* the next id of a collection (documents are never deleted here)
NewId(order, used) ==
    order[CHOOSE i \in 1..Len(order) :
            /\ order[i] \notin used
            /\ \A j \in 1..(i - 1) : order[j] \in used]

Init ==
    /\ now = 0
    /\ accounts = <<>>
    /\ users = <<>>
    /\ subscriptions = <<>>
    /\ cache = <<>>
    /\ queue = <<>>
    /\ autoJobs = 0
    /\ activities = EmptyBag
    /\ outbox = {}
    /\ inflight = <<>>
    /\ result = Outcome("init", NoId, "none", FALSE)

\* ------------------------------------------------- dates, JSON and cache
\* a Date object as the job code sees it, and its JSON form: JSON.stringify
\* writes a Date as an ISO string and JSON.parse leaves that string a string
DateObject(t) == [date |-> t]
toISOString(t) == [iso |-> t]
\* new Date(<ISO string or Date>).getTime()
DateParse(v) == IF "iso" \in DOMAIN v THEN v.iso ELSE v.date

\* JavaScript `value > new Date()`: a Date compares by its time value; a
\* string is converted to a number, an ISO string gives NaN, and every
\* comparison with NaN is false
GreaterThanNow(v, t) == IF "date" \in DOMAIN v THEN v.date > t ELSE FALSE

\* SubscriptionRepository.documentToModel: the fields the callers read
documentToModel(doc) ==
    [id |-> doc.id, accountId |-> doc.accountId, planType |-> doc.planType,
     status |-> doc.status,
     currentPeriodStart |-> DateObject(doc.currentPeriodStart),
     currentPeriodEnd |-> DateObject(doc.currentPeriodEnd),
     cancelAtPeriodEnd |-> doc.cancelAtPeriodEnd,
     cancelledAt |-> DateObject(doc.cancelledAt),
     paymentProvider |-> doc.paymentProvider,
     providerSubscriptionId |-> doc.providerSubscriptionId]

\* RedisCache.set serializes with JSON.stringify, RedisCache.get parses with
\* JSON.parse: every Date of the model comes back as a string
JSONStringify(model) ==
    [model EXCEPT !.currentPeriodStart = toISOString(@.date),
                  !.currentPeriodEnd = toISOString(@.date),
                  !.cancelledAt = toISOString(@.date)]
JSONParse(text) == text

\* redisCache.delete(`subscription:<accountId>`)
cacheDelete(c, accountId) == [k \in (DOMAIN c) \ {accountId} |-> c[k]]
\* redisCache.set(`subscription:<accountId>`, value, 1800)
cacheSet(c, accountId, model) ==
    [k \in (DOMAIN c) \cup {accountId} |->
        IF k = accountId THEN JSONStringify(model) ELSE c[k]]

\* ------------------------------------------------------ payment provider
\* length of the billing period a provider reports, in days
BillingPeriod == 1
\* statuses a provider reports for a subscription it holds
ProviderStatuses == {"active", "past_due"}
providerSubscriptionIdOf(accountId) == "sub_stripe"

\* what one call of a provider method does: throw, or return a result
ProviderThrows == [ok |-> FALSE]
ProviderResults ==
    {ProviderThrows} \cup {[ok |-> TRUE, status |-> st] : st \in ProviderStatuses}
\* cancelSubscription also reports canceled_at, which may be absent
ProviderCancelResults ==
    {ProviderThrows} \cup
    {[ok |-> TRUE, status |-> st, cancelledAt |-> c] :
        st \in ProviderStatuses, c \in {NoDate, now}}

\* -------------------------------------------------- SubscriptionService
\* what a service method hands back to its caller: the error thrown ("none"
\* when it returned), whether a provider method ran, and the collections
Effect(error, providerCalled, subs, c) ==
    [error |-> error, providerCalled |-> providerCalled, subs |-> subs, cache |-> c]

\* SubscriptionRepository.update: findByIdAndUpdate with the given fields
repositoryUpdate(subs, id, updates) ==
    [subs EXCEPT ![id] =
        [f \in DOMAIN subs[id] |->
            IF f \in DOMAIN updates THEN updates[f] ELSE subs[id][f]]]

\* a lookup that never finds the account's subscription
findByAccountId_FindsNothing(subs, accountId) == {}

\* SubscriptionRepository.findByAccountId: the ids of the documents found
findByAccountId(subs, accountId) ==
    {id \in DOMAIN subs : subs[id].accountId = accountId}

\* the requested provider name stored even when the provider is skipped
storedPaymentProvider_NoSentinel(skipProvider, paymentProvider) == paymentProvider

\* createSubscription: the name stored in the paymentProvider field
storedPaymentProvider(skipProvider, paymentProvider) ==
    IF skipProvider THEN "local" ELSE paymentProvider

\* SubscriptionService.createSubscription: the document handed to
\* subscriptionRepository.create
newSubscription(subs, accountId, planType, paymentProvider, skipProvider, pr) ==
    LET hasResult == ~skipProvider /\ getProviderFound(paymentProvider) /\ pr.ok
    IN  [id |-> NewId(SubscriptionIdOrder, DOMAIN subs),
         accountId |-> accountId,
         planType |-> planType,
         status |-> IF hasResult THEN pr.status ELSE "trialing",
         currentPeriodStart |-> now,
         currentPeriodEnd |-> IF hasResult THEN now + BillingPeriod * DAY ELSE now,
         cancelAtPeriodEnd |-> FALSE,
         cancelledAt |-> NoDate,
         features |-> getDefaultFeatures(planType),
         paymentProvider |-> storedPaymentProvider(skipProvider, paymentProvider),
         providerSubscriptionId |->
             IF hasResult THEN providerSubscriptionIdOf(accountId) ELSE NoId]

\* SubscriptionService.createSubscription
createSubscription(subs, c, accountId, planType, paymentProvider, skipProvider, pr) ==
    LET existing == findByAccountId(subs, accountId)
        providerCalled == ~skipProvider /\ getProviderFound(paymentProvider)
        doc == newSubscription(subs, accountId, planType, paymentProvider, skipProvider, pr)
    IN  IF existing # {}
        THEN Effect("ConflictError", FALSE, subs, c)
        ELSE Effect("none", providerCalled, subs @@ (doc.id :> doc), cacheDelete(c, accountId))

\* an update that writes the plan before it looks the provider up
updatePlan_WritesFirst(subs, c, subscriptionId, newPlanType, pr) ==
    IF subscriptionId \notin DOMAIN subs
    THEN Effect("NotFoundError", FALSE, subs, c)
    ELSE Effect(IF getProviderFound(subs[subscriptionId].paymentProvider)
                THEN "none" ELSE "Error",
                FALSE,
                repositoryUpdate(subs, subscriptionId,
                    [planType |-> newPlanType,
                     features |-> getDefaultFeatures(newPlanType)]),
                cacheDelete(c, subs[subscriptionId].accountId))

\* SubscriptionService.updatePlan
updatePlan(subs, c, subscriptionId, newPlanType, pr) ==
    IF subscriptionId \notin DOMAIN subs
    THEN Effect("NotFoundError", FALSE, subs, c)
    ELSE LET subscription == subs[subscriptionId] IN
         IF ~getProviderFound(subscription.paymentProvider)
         THEN Effect("Error", FALSE, subs, c)
         ELSE IF subscription.providerSubscriptionId # NoId
         THEN IF ~pr.ok
              THEN Effect("Error", TRUE, subs, c)
              ELSE Effect("none", TRUE,
                          repositoryUpdate(subs, subscriptionId,
                              [planType |-> newPlanType,
                               status |-> pr.status,
                               currentPeriodStart |-> now,
                               currentPeriodEnd |-> now + BillingPeriod * DAY,
                               features |-> getDefaultFeatures(newPlanType)]),
                          cacheDelete(c, subscription.accountId))
         ELSE Effect("none", FALSE,
                     repositoryUpdate(subs, subscriptionId,
                         [planType |-> newPlanType,
                          features |-> getDefaultFeatures(newPlanType)]),
                     cacheDelete(c, subscription.accountId))

\* SubscriptionService.cancelSubscription
cancelSubscription(subs, c, subscriptionId, cancelAtPeriodEnd, pr) ==
    IF subscriptionId \notin DOMAIN subs
    THEN Effect("NotFoundError", FALSE, subs, c)
    ELSE LET subscription == subs[subscriptionId] IN
         IF ~getProviderFound(subscription.paymentProvider)
         THEN Effect("Error", FALSE, subs, c)
         ELSE IF subscription.providerSubscriptionId # NoId
         THEN IF ~pr.ok
              THEN Effect("Error", TRUE, subs, c)
              ELSE Effect("none", TRUE,
                          repositoryUpdate(subs, subscriptionId,
                              [status |-> pr.status,
                               cancelAtPeriodEnd |-> cancelAtPeriodEnd,
                               cancelledAt |-> pr.cancelledAt]),
                          cacheDelete(c, subscription.accountId))
         ELSE Effect("none", FALSE,
                     repositoryUpdate(subs, subscriptionId,
                         [status |-> "cancelled",
                          cancelAtPeriodEnd |-> cancelAtPeriodEnd,
                          cancelledAt |-> now]),
                     cacheDelete(c, subscription.accountId))

\* a guard that looks at the status instead of the flag
isCancelPending_ByStatus(subscription) == subscription.status = "cancelled"

\* resumeSubscription: the guard `subscription.cancelAtPeriodEnd`
isCancelPending(subscription) == subscription.cancelAtPeriodEnd

\* SubscriptionService.resumeSubscription
resumeSubscription(subs, c, subscriptionId, pr) ==
    IF subscriptionId \notin DOMAIN subs
    THEN Effect("NotFoundError", FALSE, subs, c)
    ELSE LET subscription == subs[subscriptionId] IN
         IF ~isCancelPending(subscription)
         THEN Effect("ConflictError", FALSE, subs, c)
         ELSE IF ~getProviderFound(subscription.paymentProvider)
         THEN Effect("Error", FALSE, subs, c)
         ELSE IF subscription.providerSubscriptionId # NoId
         THEN IF ~pr.ok
              THEN Effect("Error", TRUE, subs, c)
              ELSE Effect("none", TRUE,
                          repositoryUpdate(subs, subscriptionId,
                              [status |-> pr.status,
                               cancelAtPeriodEnd |-> FALSE,
                               cancelledAt |-> NoDate]),
                          cacheDelete(c, subscription.accountId))
         ELSE Effect("none", FALSE,
                     repositoryUpdate(subs, subscriptionId,
                         [status |-> "active",
                          cancelAtPeriodEnd |-> FALSE,
                          cancelledAt |-> NoDate]),
                     cacheDelete(c, subscription.accountId))

\* SubscriptionService.update (generic)
update(subs, c, id, updates) ==
    IF id \notin DOMAIN subs
    THEN Effect("NotFoundError", FALSE, subs, c)
    ELSE Effect("none", FALSE, repositoryUpdate(subs, id, updates),
                cacheDelete(c, subs[id].accountId))

\* SubscriptionService.getByAccountId through RedisCache.getOrSet: the set of
\* values returned (empty for null) and the cache afterwards
getByAccountId(subs, c, accountId) ==
    LET found == findByAccountId(subs, accountId) IN
    IF accountId \in DOMAIN c
    THEN [value |-> {JSONParse(c[accountId])}, cache |-> c]
    ELSE IF found = {}
    THEN [value |-> {}, cache |-> c]
    ELSE LET model == documentToModel(subs[CHOOSE id \in found : TRUE])
         IN  [value |-> {model}, cache |-> cacheSet(c, accountId, model)]

\* ------------------------------------------------ trial-expiration queue
\* the deterministic job id of scheduleTrialExpiration, and a generated one
trialExpirationJobId(accountId) == <<"trial-expiration", accountId>>
generatedJobId(n) == <<"generated", n>>

\* Queue.add: a job whose id is already in the queue is not added again
queueAdd(q, jobId, data, delay, removeOnComplete) ==
    IF jobId \in DOMAIN q
    THEN q
    ELSE q @@ (jobId :> [data |-> data,
                         delay |-> delay,
                         timestamp |-> now,
                         removeOnComplete |-> removeOnComplete,
                         attemptsMade |-> 0,
                         state |-> "delayed"])

Max(a, b) == IF a >= b THEN a ELSE b

\* a schedule that lets the queue generate the job id
scheduleTrialExpiration_NoJobId(q, accountId, subscriptionId, trialEndDate) ==
    queueAdd(q, generatedJobId(0),
             [accountId |-> accountId, subscriptionId |-> subscriptionId,
              trialEndDate |-> toISOString(trialEndDate)],
             Max(0, trialEndDate - now), TRUE)

\* scheduleTrialExpiration
scheduleTrialExpiration(q, accountId, subscriptionId, trialEndDate) ==
    queueAdd(q, trialExpirationJobId(accountId),
             [accountId |-> accountId, subscriptionId |-> subscriptionId,
              trialEndDate |-> toISOString(trialEndDate)],
             Max(0, trialEndDate - now), TRUE)

\* ---------------------------------------------------------- AccountService
\* AccountService.createAccount
createAccount(plan, startTrial) ==
    [plan |-> plan,
     isTrial |-> startTrial,
     trialStartDate |-> IF startTrial THEN now ELSE NoDate,
     trialEndDate |-> IF startTrial THEN now + TRIAL_DAYS * DAY ELSE NoDate]

\* AccountService.endTrial: updateAccount(accountId, {isTrial: false})
endTrial(accs, accountId) ==
    IF accountId \notin DOMAIN accs
    THEN [error |-> "NotFoundError", accounts |-> accs]
    ELSE [error |-> "none", accounts |-> [accs EXCEPT ![accountId].isTrial = FALSE]]

\* ActivityLogger.log
logActivity(log, accountId, activityType) ==
    log (+) SetToBag({[accountId |-> accountId, activityType |-> activityType]})

\* ----------------------------------------------------------------- actions
\* POST /accounts: AccountController.create
CreateAccount ==
    /\ Cardinality(DOMAIN accounts) < MaxAccounts
    /\ LET id == NewId(AccountIdOrder, DOMAIN accounts)
       IN  /\ accounts' = accounts @@ (id :> createAccount("free", TRUE))
           /\ result' = Outcome("createAccount", id, "none", FALSE)
    /\ UNCHANGED <<now, users, subscriptions, cache, queue, autoJobs, activities, outbox, inflight>>

\* AuthService.register after its findByEmail check: the account, its owner,
\* the trial subscription, the expiration job and the activity records
RegisterWrites(email) ==
    LET id == NewId(AccountIdOrder, DOMAIN accounts)
        account == createAccount("free", TRUE)
        created == createSubscription(subscriptions, cache, id, "pro", "stripe",
                                      TRUE, ProviderThrows)
        subscriptionId == NewId(SubscriptionIdOrder, DOMAIN subscriptions)
    IN  /\ accounts' = accounts @@ (id :> account)
        /\ users' = users @@ (ToLowerCase(email) :>
                        [accountId |-> id, email |-> ToLowerCase(email), role |-> "owner"])
        /\ IF created.error = "none"
           THEN /\ subscriptions' =
                     repositoryUpdate(created.subs, subscriptionId,
                         [status |-> "trialing",
                          currentPeriodStart |-> now,
                          currentPeriodEnd |-> account.trialEndDate])
                /\ cache' = created.cache
                /\ queue' = scheduleTrialExpiration(queue, id, subscriptionId,
                                                    account.trialEndDate)
           ELSE UNCHANGED <<subscriptions, cache, queue>>
        /\ activities' =
             logActivity(logActivity(logActivity(activities,
                 id, "account_created"), id, "user_registered"), id, "trial_started")
        /\ result' = Outcome("register", id, "none", FALSE)

\* AuthService.register
Register(email) ==
    IF ToLowerCase(email) \in DOMAIN users
    THEN /\ result' = Outcome("register", NoId, "Error", FALSE)
         /\ UNCHANGED <<now, accounts, users, subscriptions, cache, queue, autoJobs,
                        activities, outbox, inflight>>
    ELSE /\ Cardinality(DOMAIN accounts) < MaxAccounts
         /\ RegisterWrites(email)
         /\ UNCHANGED <<now, autoJobs, outbox, inflight>>

\* POST subscription: SubscriptionService.createSubscription
CreateSubscription(accountId, planType, paymentProvider, skipProvider, pr) ==
    /\ accountId \in DOMAIN accounts
    /\ LET e == createSubscription(subscriptions, cache, accountId, planType,
                                   paymentProvider, skipProvider, pr)
       IN  /\ subscriptions' = e.subs
           /\ cache' = e.cache
           /\ result' = Outcome("createSubscription", accountId, e.error, e.providerCalled)
    /\ UNCHANGED <<now, accounts, users, queue, autoJobs, activities, outbox, inflight>>

\* the account a subscription id belongs to, for the outcome record
accountOf(subscriptionId) ==
    IF subscriptionId \in DOMAIN subscriptions
    THEN subscriptions[subscriptionId].accountId ELSE NoId

\* GET subscription: SubscriptionService.getByAccountId
GetByAccountId(accountId) ==
    /\ accountId \in DOMAIN accounts
    /\ cache' = getByAccountId(subscriptions, cache, accountId).cache
    /\ result' = Outcome("getByAccountId", accountId, "none", FALSE)
    /\ UNCHANGED <<now, accounts, users, subscriptions, queue, autoJobs, activities, outbox, inflight>>

\* SubscriptionService.update
Update(subscriptionId, updates) ==
    /\ LET e == update(subscriptions, cache, subscriptionId, updates)
       IN  /\ subscriptions' = e.subs
           /\ cache' = e.cache
           /\ result' = Outcome("update", accountOf(subscriptionId), e.error, e.providerCalled)
    /\ UNCHANGED <<now, accounts, users, queue, autoJobs, activities, outbox, inflight>>

\* PUT plan: SubscriptionService.updatePlan
UpdatePlan(subscriptionId, newPlanType, pr) ==
    /\ LET e == updatePlan(subscriptions, cache, subscriptionId, newPlanType, pr)
       IN  /\ subscriptions' = e.subs
           /\ cache' = e.cache
           /\ result' = Outcome("updatePlan", accountOf(subscriptionId), e.error, e.providerCalled)
    /\ UNCHANGED <<now, accounts, users, queue, autoJobs, activities, outbox, inflight>>

\* POST cancel: SubscriptionService.cancelSubscription
CancelSubscription(subscriptionId, cancelAtPeriodEnd, pr) ==
    /\ LET e == cancelSubscription(subscriptions, cache, subscriptionId, cancelAtPeriodEnd, pr)
       IN  /\ subscriptions' = e.subs
           /\ cache' = e.cache
           /\ result' = Outcome("cancelSubscription", accountOf(subscriptionId), e.error,
                                e.providerCalled)
    /\ UNCHANGED <<now, accounts, users, queue, autoJobs, activities, outbox, inflight>>

\* POST resume: SubscriptionService.resumeSubscription
ResumeSubscription(subscriptionId, pr) ==
    /\ LET e == resumeSubscription(subscriptions, cache, subscriptionId, pr)
       IN  /\ subscriptions' = e.subs
           /\ cache' = e.cache
           /\ result' = Outcome("resumeSubscription", accountOf(subscriptionId), e.error,
                                e.providerCalled)
    /\ UNCHANGED <<now, accounts, users, queue, autoJobs, activities, outbox, inflight>>

\* AccountService.endTrial
EndTrial(accountId) ==
    /\ LET e == endTrial(accounts, accountId)
       IN  /\ accounts' = e.accounts
           /\ result' = Outcome("endTrial", accountId, e.error, FALSE)
    /\ UNCHANGED <<now, users, subscriptions, cache, queue, autoJobs, activities, outbox, inflight>>

\* ------------------------------------------------------------- the worker
\* a queue that drops a job once its retries are exhausted
finishJob_DropsFailed(q, jobId, error) ==
    IF error = "none" \/ q[jobId].attemptsMade + 1 >= attempts
    THEN [k \in (DOMAIN q) \ {jobId} |-> q[k]]
    ELSE [q EXCEPT ![jobId].attemptsMade = @ + 1]

\* the Worker's handling of a finished attempt: a returned job is removed
\* (removeOnComplete: true) or kept as completed; a thrown error counts the
\* attempt, and the job is retried until `attempts` attempts were made, then
\* kept as failed (removeOnFail: false)
finishJob(q, jobId, error) ==
    IF error = "none"
    THEN IF q[jobId].removeOnComplete
         THEN [k \in (DOMAIN q) \ {jobId} |-> q[k]]
         ELSE [q EXCEPT ![jobId].state = "completed"]
    ELSE [q EXCEPT ![jobId].attemptsMade = @ + 1,
                   ![jobId].state =
                       IF q[jobId].attemptsMade + 1 >= attempts THEN "failed" ELSE "delayed"]

\* what one run of the handler does
Run(error, message, providerCalled, subs, c, accs, log, rescheduled) ==
    [error |-> error, message |-> message, providerCalled |-> providerCalled,
     subs |-> subs, cache |-> c, accounts |-> accs, activities |-> log,
     rescheduled |-> rescheduled]

\* the comparison the wrong way round
isEarly_Inverted(trialEnd) == trialEnd < now

\* a status check that lets every status through
isStillOnTrial_Always(status) == TRUE

\* processTrialExpiration: `now < trialEnd`, the run is early
isEarly(trialEnd) == now < trialEnd

\* processTrialExpiration: the subscription is still trialing or active
isStillOnTrial(status) == status = "trialing" \/ status = "active"

\* processTrialExpiration
processTrialExpiration(data, pr) ==
    LET accountId == data.accountId
        subscriptionId == data.subscriptionId
        trialEnd == DateParse(data.trialEndDate)
        got == getByAccountId(subscriptions, cache, accountId)
        subscription == CHOOSE v \in got.value : TRUE
        plan == updatePlan(subscriptions, got.cache, subscriptionId, "free", pr)
        trial == endTrial(accounts, accountId)
    IN  IF isEarly(trialEnd)
        THEN Run("none", "Trial not expired yet, rescheduled", FALSE,
                 subscriptions, cache, accounts, activities, TRUE)
        ELSE IF got.value = {}
        THEN Run("Error", "Subscription not found", FALSE,
                 subscriptions, got.cache, accounts, activities, FALSE)
        ELSE IF ~isStillOnTrial(subscription.status)
        THEN Run("none", "Subscription already processed", FALSE,
                 subscriptions, got.cache, accounts, activities, FALSE)
        ELSE IF GreaterThanNow(subscription.currentPeriodEnd, now)
        THEN Run("none", "Trial not expired yet", FALSE,
                 subscriptions, got.cache, accounts, activities, FALSE)
        ELSE IF plan.error # "none"
        THEN Run(plan.error, "updatePlan failed", plan.providerCalled,
                 plan.subs, plan.cache, accounts, activities, FALSE)
        ELSE IF trial.error # "none"
        THEN Run(trial.error, "endTrial failed", plan.providerCalled,
                 plan.subs, plan.cache, accounts, activities, FALSE)
        ELSE Run("none", "Trial expired and account downgraded to free", plan.providerCalled,
                 plan.subs, plan.cache, trial.accounts,
                 logActivity(activities, accountId, "trial_expired"), FALSE)

\* the Worker takes a waiting job and runs the handler on it.  The delay of a
\* job is advisory: the handler itself decides whether the run is early.
ProcessTrialExpiration(jobId, pr) ==
    /\ jobId \in DOMAIN queue
    /\ queue[jobId].state = "delayed"
    /\ LET data == queue[jobId].data
           run == processTrialExpiration(data, pr)
       IN  /\ run.rescheduled => autoJobs < MaxAutoJobs
           /\ subscriptions' = run.subs
           /\ cache' = run.cache
           /\ accounts' = run.accounts
           /\ activities' = run.activities
           /\ autoJobs' = IF run.rescheduled THEN autoJobs + 1 ELSE autoJobs
           /\ queue' =
                finishJob(
                    IF run.rescheduled
                    THEN queueAdd(queue, generatedJobId(autoJobs + 1), data,
                                  DateParse(data.trialEndDate) - now, FALSE)
                    ELSE queue,
                    jobId, run.error)
           /\ result' = Outcome("processTrialExpiration", data.accountId, run.error,
                                run.providerCalled) @@ [message |-> run.message]
    /\ UNCHANGED <<now, users, outbox, inflight>>

\* a day passes; cache entries live 1800 seconds
Tick ==
    /\ now < MaxTime * DAY
    /\ now' = now + DAY
    /\ cache' = <<>>
    /\ result' = Outcome("tick", NoId, "none", FALSE)
    /\ UNCHANGED <<accounts, users, subscriptions, queue, autoJobs, activities, outbox, inflight>>

\* the field sets SubscriptionService.update is called with
UpdateInputs ==
    {[status |-> st] : st \in Statuses} \cup
    {[currentPeriodEnd |-> now + BillingPeriod * DAY]} \cup
    {[cancelAtPeriodEnd |-> TRUE]}

Next ==
    \/ CreateAccount
    \/ \E email \in Emails : Register(email)
    \/ \E accountId \in AccountIds, planType \in PlanTypes,
          paymentProvider \in PaymentProviderNames, skipProvider \in BOOLEAN,
          pr \in ProviderResults :
            CreateSubscription(accountId, planType, paymentProvider, skipProvider, pr)
    \/ \E accountId \in AccountIds : GetByAccountId(accountId)
    \/ \E subscriptionId \in SubscriptionIds, updates \in UpdateInputs :
            Update(subscriptionId, updates)
    \/ \E subscriptionId \in SubscriptionIds, newPlanType \in PlanTypes, pr \in ProviderResults :
            UpdatePlan(subscriptionId, newPlanType, pr)
    \/ \E subscriptionId \in SubscriptionIds, cancelAtPeriodEnd \in BOOLEAN,
          pr \in ProviderCancelResults :
            CancelSubscription(subscriptionId, cancelAtPeriodEnd, pr)
    \/ \E subscriptionId \in SubscriptionIds, pr \in ProviderResults :
            ResumeSubscription(subscriptionId, pr)
    \/ \E accountId \in AccountIds : EndTrial(accountId)
    \/ \E jobId \in DOMAIN queue, pr \in ProviderResults : ProcessTrialExpiration(jobId, pr)
    \/ Tick

Spec == Init /\ [][Next]_vars

\* ========================================================= authentication
\* TOTP steps the clock of the login flow advances
MaxSteps == 2
\* successful logins the activity log records
MaxLogins == 1
\* messages the reset flow sends
MaxResets == 1
\* hours the clock of the reset flow advances
MaxHours == 1

\* speakeasy.totp: a time step of 30 seconds, and `window: 1`
TOTP_STEP == 30 * 1000
window == 1
\* requestPasswordReset: the life of a reset token, 1 hour
RESET_EXPIRES == 60 * 60 * 1000

Passwords == {"pw1", "pw2"}
RawTokens == {"r1", "r2"}
Phones == {NoId, "+100"}

\* utils hashPassword / verifyPassword (bcrypt): a one-way hash and its check
hashPassword(password) == [bcrypt |-> password]
verifyPassword(password, hash) == hash = hashPassword(password)

\* crypto.createHash('sha256').update(token).digest('hex')
sha256(token) == [sha256 |-> token]
NoHash == [sha256 |-> NoId]

\* the TOTP code of a secret at a counter, and the absent mfaCode
totp(secret, counter) == [secret |-> secret, counter |-> counter]
NoCode == [secret |-> NoId, counter |-> -1]
MfaCodes ==
    {NoCode} \cup {totp("S1", c) : c \in 0..MaxSteps} \cup {totp("S2", 0)}

\* TotpMfaProvider.verifyCode: speakeasy.totp.verify with window 1
verifyCode(secret, code, t) ==
    \E d \in (0 - window)..window : code = totp(secret, (t \div TOTP_STEP) + d)

\* the paths of UserSchema; mongoose (strict) writes no other path
UserSchemaPaths ==
    {"accountId", "email", "password", "role", "firstName", "lastName", "company",
     "phone", "profilePicture", "onboardingCompleted"}

\* the stored documents: a collection holds whatever was written to it, so a
\* document may carry the MFA fields of IUser although UserSchema has no such path
UserDocuments ==
    {[accountId |-> "acc1", email |-> "a@x.com", role |-> "owner",
      password |-> hashPassword("pw1"), phone |-> ph,
      mfaEnabled |-> en, mfaSecret |-> sec,
      passwordResetToken |-> NoHash, passwordResetExpires |-> NoDate] :
        ph \in Phones, en \in BOOLEAN, sec \in {NoId, "S1"}}

\* UserRepository.documentToModel followed by the User constructor: the
\* fields the repository does not copy take the constructor's defaults
UserDocumentToModel(doc) ==
    [accountId |-> doc.accountId, email |-> doc.email, role |-> doc.role,
     password |-> doc.password, phone |-> doc.phone,
     mfaEnabled |-> FALSE, mfaSecret |-> NoId,
     passwordResetToken |-> NoHash, passwordResetExpires |-> NoDate]

\* UserRepository.findByEmail: the users found, as models
findByEmail(email) ==
    IF ToLowerCase(email) \in DOMAIN users
    THEN {UserDocumentToModel(users[ToLowerCase(email)])}
    ELSE {}

\* UserRepository.update: findByIdAndUpdate under the schema's strict mode
\* keeps only the paths of the schema
userRepositoryUpdate(us, email, updates) ==
    [us EXCEPT ![email] =
        [f \in DOMAIN @ |->
            IF f \in DOMAIN updates /\ f \in UserSchemaPaths THEN updates[f] ELSE @[f]]]

\* generateToken: the JWT of a user, and no token
generateToken(user) == [jwt |-> user.email]
NoToken == [jwt |-> NoId]

\* what a call of AuthService hands back
AuthResult(error, message, token, log) ==
    [error |-> error, message |-> message, token |-> token, activities |-> log]

\* a lookup miss reported the way getUserByEmail reports it
userNotFoundError_NotFound == "NotFoundError"

\* loginWithPassword: the error thrown when no user has the e-mail
userNotFoundError == "UnauthorizedError"

\* AuthService.loginWithPassword
loginWithPassword(email, password, mfaCode) ==
    LET found == findByEmail(email)
        user == CHOOSE u \in found : TRUE
    IN  IF email = NoId \/ password = NoId
        THEN AuthResult("UnauthorizedError", "Email and password are required",
                        NoToken, activities)
        ELSE IF found = {}
        THEN AuthResult(userNotFoundError, "Invalid email or password", NoToken, activities)
        ELSE IF ~verifyPassword(password, user.password)
        THEN AuthResult("UnauthorizedError", "Invalid email or password", NoToken, activities)
        ELSE IF user.mfaEnabled /\ user.mfaSecret = NoId
        THEN AuthResult("UnauthorizedError", "MFA is misconfigured for this account",
                        NoToken, activities)
        ELSE IF user.mfaEnabled /\ mfaCode = NoCode
        THEN AuthResult("UnauthorizedError", "MFA code required", NoToken, activities)
        ELSE IF user.mfaEnabled /\ ~verifyCode(user.mfaSecret, mfaCode, now)
        THEN AuthResult("UnauthorizedError", "Invalid MFA code", NoToken, activities)
        ELSE IF user.accountId \notin DOMAIN accounts
        THEN AuthResult("NotFoundError", "Account not found", NoToken, activities)
        ELSE AuthResult("none", "", generateToken(user),
                        logActivity(activities, user.accountId, "user_logged_in"))

\* the messages handed to the e-mail and SMS providers
Message(channel, to, token) ==
    [channel |-> channel, to |-> to, token |-> token, at |-> now]

\* AuthService.requestPasswordReset; rawToken is crypto.randomBytes(32)
requestPasswordReset(email, rawToken) ==
    LET found == findByEmail(ToLowerCase(email))
        user == CHOOSE u \in found : TRUE
    IN  IF found = {}
        THEN [resetToken |-> "", users |-> users, sent |-> {}]
        ELSE [resetToken |-> rawToken,
              users |-> userRepositoryUpdate(users, user.email,
                            [passwordResetToken |-> sha256(rawToken),
                             passwordResetExpires |-> now + RESET_EXPIRES]),
              sent |-> {Message("email", user.email, rawToken)} \cup
                       (IF user.phone # NoId
                        THEN {Message("sms", user.phone, rawToken)} ELSE {})]

\* the methods of class UserRepository and of BaseRepository
UserRepositoryMethods ==
    {"findById", "findAll", "findByEmail", "findByAccountId", "create", "update",
     "delete", "exists", "throwIfNotFound", "documentToModel"}

\* the lookup resetPassword calls: the users whose stored hash is the hash
findByPasswordResetToken(tokenHash) ==
    {UserDocumentToModel(users[e]) : e \in {x \in DOMAIN users :
                                            users[x].passwordResetToken = tokenHash}}

\* AuthService.resetPassword: a call of a method the repository does not have
\* throws TypeError
resetPassword(token, newPassword) ==
    LET found == findByPasswordResetToken(sha256(token))
        user == CHOOSE u \in found : TRUE
    IN  IF "findByPasswordResetToken" \notin UserRepositoryMethods
        THEN [error |-> "TypeError", token |-> NoToken, users |-> users]
        ELSE IF found = {}
        THEN [error |-> "UnauthorizedError", token |-> NoToken, users |-> users]
        ELSE IF user.accountId \notin DOMAIN accounts
        THEN [error |-> "NotFoundError", token |-> NoToken,
              users |-> userRepositoryUpdate(users, user.email,
                            [password |-> hashPassword(newPassword),
                             passwordResetToken |-> NoHash,
                             passwordResetExpires |-> NoDate])]
        ELSE [error |-> "none", token |-> generateToken(user),
              users |-> userRepositoryUpdate(users, user.email,
                            [password |-> hashPassword(newPassword),
                             passwordResetToken |-> NoHash,
                             passwordResetExpires |-> NoDate])]

\* POST /auth/login with method password
Login(email, password, mfaCode) ==
    /\ LET r == loginWithPassword(email, password, mfaCode)
       IN  /\ r.error = "none" => BagCardinality(activities) < MaxLogins
           /\ activities' = r.activities
           /\ result' = Outcome("login", NoId, r.error, FALSE)
                            @@ [message |-> r.message, token |-> r.token]
    /\ UNCHANGED <<now, accounts, users, subscriptions, cache, queue, autoJobs, outbox, inflight>>

\* POST /auth/forgot-password: AuthController.requestPasswordReset
RequestPasswordReset(email, rawToken) ==
    /\ LET r == requestPasswordReset(email, rawToken)
       IN  /\ r.sent # {} => Cardinality(outbox) < MaxResets
           /\ users' = r.users
           /\ outbox' = outbox \cup r.sent
           /\ result' = Outcome("requestPasswordReset", NoId, "none", FALSE)
                @@ [response |->
                        [message |-> "If that email exists, a reset link has been generated.",
                         resetToken |-> r.resetToken]]
    /\ UNCHANGED <<now, accounts, subscriptions, cache, queue, autoJobs, activities, inflight>>

\* POST /auth/reset-password: AuthController.resetPassword
ResetPassword(token, newPassword) ==
    /\ LET r == resetPassword(token, newPassword)
       IN  /\ users' = r.users
           /\ result' = Outcome("resetPassword", NoId, r.error, FALSE) @@ [token |-> r.token]
    /\ UNCHANGED <<now, accounts, subscriptions, cache, queue, autoJobs, activities, outbox, inflight>>

\* one TOTP step passes
TickStep ==
    /\ now < MaxSteps * TOTP_STEP
    /\ now' = now + TOTP_STEP
    /\ result' = Outcome("tick", NoId, "none", FALSE)
    /\ UNCHANGED <<accounts, users, subscriptions, cache, queue, autoJobs, activities, outbox, inflight>>

\* an hour passes
TickHour ==
    /\ now < MaxHours * RESET_EXPIRES
    /\ now' = now + RESET_EXPIRES
    /\ result' = Outcome("tick", NoId, "none", FALSE)
    /\ UNCHANGED <<accounts, users, subscriptions, cache, queue, autoJobs, activities, outbox, inflight>>

LoginEmails == Emails \cup {"b@x.com"}

AuthInit ==
    /\ now = 0
    /\ accounts = ("acc1" :> [plan |-> "free", isTrial |-> TRUE, trialStartDate |-> 0,
                              trialEndDate |-> TRIAL_DAYS * DAY])
    /\ users \in {("a@x.com" :> doc) : doc \in UserDocuments}
    /\ subscriptions = <<>>
    /\ cache = <<>>
    /\ queue = <<>>
    /\ autoJobs = 0
    /\ activities = EmptyBag
    /\ outbox = {}
    /\ inflight = <<>>
    /\ result = Outcome("init", NoId, "none", FALSE)

AuthNext ==
    \/ \E email \in LoginEmails, password \in Passwords \cup {NoId}, mfaCode \in MfaCodes :
            Login(email, password, mfaCode)
    \/ \E email \in LoginEmails, rawToken \in RawTokens : RequestPasswordReset(email, rawToken)
    \/ \E token \in RawTokens \cup {"garbled"}, newPassword \in Passwords :
            ResetPassword(token, newPassword)
    \/ TickStep
    \/ TickHour

AuthSpec == AuthInit /\ [][AuthNext]_vars

\* ------------------------------------------------------- the Account model
\* days of the clock and of the trial ends the Account methods are applied to
MaxDays == 2

\* a rounding towards the lower whole number
Ceil_Floor(a, b) == a \div b

\* Math.ceil(a / b) for b > 0
Ceil(a, b) == 0 - ((0 - a) \div b)

\* Account.isTrialActive at the instant t
isTrialActive(account, t) ==
    IF ~account.isTrial \/ account.trialEndDate = NoDate
    THEN FALSE
    ELSE t < account.trialEndDate

\* an expiry that starts only after the instant of the trial's end
isTrialExpired_Strict(account, t) ==
    IF ~account.isTrial \/ account.trialEndDate = NoDate
    THEN FALSE
    ELSE t > account.trialEndDate

\* Account.isTrialExpired at the instant t
isTrialExpired(account, t) ==
    IF ~account.isTrial \/ account.trialEndDate = NoDate
    THEN FALSE
    ELSE t >= account.trialEndDate

\* Account.getTrialDaysRemaining at the instant t
getTrialDaysRemaining(account, t) ==
    IF ~account.isTrial \/ account.trialEndDate = NoDate
    THEN 0
    ELSE Max(0, Ceil(account.trialEndDate - t, DAY))

\* the instants of new Date(): the day boundaries and a millisecond either side
Instants == {d * DAY + o : d \in 0..MaxDays, o \in {-1, 0, 1}} \cap Nat

\* the ends of a trial: whole days after its start at 0, and half a day more
TrialEnds == {d * DAY + o : d \in 1..MaxDays, o \in {0, DAY \div 2}}

\* the accounts AccountService leaves behind: on trial with both dates
\* (createAccount), a trial that endTrial ended, and one never on trial
TrialAccounts ==
    {[plan |-> "free", isTrial |-> t, trialStartDate |-> 0, trialEndDate |-> e] :
        t \in BOOLEAN, e \in TrialEnds}
    \cup {[plan |-> "free", isTrial |-> FALSE, trialStartDate |-> NoDate,
           trialEndDate |-> NoDate]}

\* account.isTrialActive()
IsTrialActive(accountId) ==
    /\ result' = Outcome("isTrialActive", accountId, "none", FALSE)
                    @@ [value |-> isTrialActive(accounts[accountId], now)]
    /\ UNCHANGED <<now, accounts, users, subscriptions, cache, queue, autoJobs,
                   activities, outbox, inflight>>

\* account.isTrialExpired()
IsTrialExpired(accountId) ==
    /\ result' = Outcome("isTrialExpired", accountId, "none", FALSE)
                    @@ [value |-> isTrialExpired(accounts[accountId], now)]
    /\ UNCHANGED <<now, accounts, users, subscriptions, cache, queue, autoJobs,
                   activities, outbox, inflight>>

\* account.getTrialDaysRemaining()
GetTrialDaysRemaining(accountId) ==
    /\ result' = Outcome("getTrialDaysRemaining", accountId, "none", FALSE)
                    @@ [days |-> getTrialDaysRemaining(accounts[accountId], now)]
    /\ UNCHANGED <<now, accounts, users, subscriptions, cache, queue, autoJobs,
                   activities, outbox, inflight>>

AccountInit ==
    /\ now \in Instants
    /\ accounts \in {("acc1" :> a) : a \in TrialAccounts}
    /\ users = <<>>
    /\ subscriptions = <<>>
    /\ cache = <<>>
    /\ queue = <<>>
    /\ autoJobs = 0
    /\ activities = EmptyBag
    /\ outbox = {}
    /\ inflight = <<>>
    /\ result = Outcome("init", NoId, "none", FALSE)

AccountNext ==
    \/ \E accountId \in DOMAIN accounts : IsTrialActive(accountId)
    \/ \E accountId \in DOMAIN accounts : IsTrialExpired(accountId)
    \/ \E accountId \in DOMAIN accounts : GetTrialDaysRemaining(accountId)

AccountSpec == AccountInit /\ [][AccountNext]_vars

\* ------------------------------------------------------- PATCH /accounts/:id
\* the keys of updateAccountBodySchema
UpdateAccountBodyPaths == {"name", "subdomain", "plan", "status"}

\* the request bodies a client sends: a plan change, and attempts to set the
\* trial flag
UpdateAccountBodies ==
    {[plan |-> "pro"], [isTrial |-> TRUE], [plan |-> "pro", isTrial |-> TRUE]}

\* a validation that hands the body on as it came
validate_PassThrough(body) == body

\* validate(updateAccountBodySchema, 'body'): the parsed body replaces
\* req.body, and a zod object drops the keys it does not name
validate(body) ==
    [f \in DOMAIN body \cap UpdateAccountBodyPaths |-> body[f]]

\* AccountService.updateAccount: AccountRepository.update writes the fields
\* it is given
updateAccount(accs, accountId, updates) ==
    IF accountId \notin DOMAIN accs
    THEN [error |-> "NotFoundError", accounts |-> accs]
    ELSE [error |-> "none",
          accounts |-> [accs EXCEPT ![accountId] =
                            [f \in DOMAIN @ |->
                                IF f \in DOMAIN updates THEN updates[f] ELSE @[f]]]]

\* PATCH /accounts/:accountId: AccountController.update
UpdateAccount(accountId, body) ==
    /\ LET u == updateAccount(accounts, accountId, validate(body))
       IN  /\ accounts' = u.accounts
           /\ result' = Outcome("updateAccount", accountId, u.error, FALSE)
    /\ UNCHANGED <<now, users, subscriptions, cache, queue, autoJobs, activities, outbox, inflight>>

\* the operations that touch an account or its trial
TrialNext ==
    \/ Next
    \/ \E accountId \in AccountIds, body \in UpdateAccountBodies :
            UpdateAccount(accountId, body)

TrialSpec == Init /\ [][TrialNext]_vars

\* ------------------------------------------------------- interleaved calls
\* the calls that can be between two of their awaits at the same time
Calls == {"p1", "p2"}
\* accounts the interleaved register calls create
MaxRegistered == 2

\* a call that has returned or thrown
done(p) == [q \in (DOMAIN inflight) \ {p} |-> inflight[q]]

\* a collection without the unique index on accountId
accountIdUnique_Off == FALSE

\* SubscriptionSchema.accountId: `unique: true`
accountIdUnique == TRUE

\* SubscriptionRepository.create: doc.save() fails with a duplicate-key error
\* when the unique index on accountId already holds the account
subscriptionRepositoryCreate(subs, doc) ==
    IF accountIdUnique /\ findByAccountId(subs, doc.accountId) # {}
    THEN [error |-> "MongoServerError", subs |-> subs]
    ELSE [error |-> "none", subs |-> subs @@ (doc.id :> doc)]

\* register up to its first await: userRepository.findByEmail
RegisterFindByEmail(p, email) ==
    /\ p \notin DOMAIN inflight
    /\ IF ToLowerCase(email) \in DOMAIN users
       THEN /\ result' = Outcome("register", NoId, "Error", FALSE)
            /\ UNCHANGED inflight
       ELSE /\ result' = Outcome("register:findByEmail", NoId, "none", FALSE)
            /\ inflight' = inflight @@ (p :> [op |-> "register", email |-> email])
    /\ UNCHANGED <<now, accounts, users, subscriptions, cache, queue, autoJobs,
                   activities, outbox>>

\* register from createAccount on: userRepository.create checks the e-mail
\* again and throws ConflictError, after the account was created
RegisterCreate(p) ==
    /\ p \in DOMAIN inflight
    /\ inflight[p].op = "register"
    /\ Cardinality(DOMAIN accounts) < MaxRegistered
    /\ IF ToLowerCase(inflight[p].email) \in DOMAIN users
       THEN /\ accounts' = accounts @@
                    (NewId(AccountIdOrder, DOMAIN accounts) :> createAccount("free", TRUE))
            /\ result' = Outcome("register", NewId(AccountIdOrder, DOMAIN accounts),
                                 "ConflictError", FALSE)
            /\ UNCHANGED <<users, subscriptions, cache, queue, activities>>
       ELSE RegisterWrites(inflight[p].email)
    /\ inflight' = done(p)
    /\ UNCHANGED <<now, autoJobs, outbox>>

\* createSubscription up to its first await: findByAccountId
CreateSubscriptionFindByAccountId(p, accountId, planType, skipProvider, pr) ==
    /\ p \notin DOMAIN inflight
    /\ accountId \in DOMAIN accounts
    /\ IF findByAccountId(subscriptions, accountId) # {}
       THEN /\ result' = Outcome("createSubscription", accountId, "ConflictError", FALSE)
            /\ UNCHANGED inflight
       ELSE /\ result' = Outcome("createSubscription:findByAccountId", accountId, "none", FALSE)
            /\ inflight' = inflight @@
                    (p :> [op |-> "createSubscription", accountId |-> accountId,
                           planType |-> planType, skipProvider |-> skipProvider, pr |-> pr])
    /\ UNCHANGED <<now, accounts, users, subscriptions, cache, queue, autoJobs,
                   activities, outbox>>

\* createSubscription from subscriptionRepository.create on
CreateSubscriptionInsert(p) ==
    /\ p \in DOMAIN inflight
    /\ inflight[p].op = "createSubscription"
    /\ LET a == inflight[p]
           doc == newSubscription(subscriptions, a.accountId, a.planType, "stripe",
                                  a.skipProvider, a.pr)
           r == subscriptionRepositoryCreate(subscriptions, doc)
       IN  /\ subscriptions' = r.subs
           /\ cache' = IF r.error = "none" THEN cacheDelete(cache, a.accountId) ELSE cache
           /\ result' = Outcome("createSubscription", a.accountId, r.error, ~a.skipProvider)
    /\ inflight' = done(p)
    /\ UNCHANGED <<now, accounts, users, queue, autoJobs, activities, outbox>>

\* getByAccountId up to the value it returns: RedisCache.getOrSet reads the
\* cache, on a miss reads the collection, and starts `this.set` without
\* awaiting it (a null is stored as a miss)
GetByAccountIdRead(p, accountId) ==
    /\ p \notin DOMAIN inflight
    /\ accountId \in DOMAIN accounts
    /\ LET found == findByAccountId(subscriptions, accountId)
           model == documentToModel(subscriptions[CHOOSE id \in found : TRUE])
       IN  IF accountId \in DOMAIN cache
           THEN /\ result' = Outcome("getByAccountId", accountId, "none", FALSE)
                                @@ [value |-> {JSONParse(cache[accountId])}]
                /\ UNCHANGED inflight
           ELSE IF found = {}
           THEN /\ result' = Outcome("getByAccountId", accountId, "none", FALSE)
                                @@ [value |-> {}]
                /\ UNCHANGED inflight
           ELSE /\ result' = Outcome("getByAccountId", accountId, "none", FALSE)
                                @@ [value |-> {model}]
                /\ inflight' = inflight @@
                        (p :> [op |-> "getByAccountId", accountId |-> accountId,
                               value |-> model])
    /\ UNCHANGED <<now, accounts, users, subscriptions, cache, queue, autoJobs,
                   activities, outbox>>

\* the `this.set` that getOrSet started reaches Redis
CacheSetLands(p) ==
    /\ p \in DOMAIN inflight
    /\ inflight[p].op = "getByAccountId"
    /\ cache' = cacheSet(cache, inflight[p].accountId, inflight[p].value)
    /\ inflight' = done(p)
    /\ result' = Outcome("cacheSet", inflight[p].accountId, "none", FALSE)
    /\ UNCHANGED <<now, accounts, users, subscriptions, queue, autoJobs, activities, outbox>>

\* the plans and the field sets the interleaved calls are made with
RacePlans == {"free", "pro"}
RaceUpdates == {[cancelAtPeriodEnd |-> TRUE]}
RaceEmails == {"a@x.com"}

RaceNext ==
    \/ \E p \in Calls, email \in RaceEmails : RegisterFindByEmail(p, email)
    \/ \E p \in Calls : RegisterCreate(p)
    \/ \E p \in Calls, accountId \in AccountIds, planType \in RacePlans,
          skipProvider \in BOOLEAN :
            CreateSubscriptionFindByAccountId(p, accountId, planType, skipProvider,
                                              ProviderThrows)
    \/ \E p \in Calls : CreateSubscriptionInsert(p)
    \/ \E p \in Calls, accountId \in AccountIds : GetByAccountIdRead(p, accountId)
    \/ \E p \in Calls : CacheSetLands(p)
    \/ \E subscriptionId \in SubscriptionIds, updates \in RaceUpdates :
            Update(subscriptionId, updates)
    \/ \E subscriptionId \in SubscriptionIds, pr \in ProviderResults :
            UpdatePlan(subscriptionId, "free", pr)
    \/ CreateAccount

RaceSpec == Init /\ [][RaceNext]_vars

\* ------------------------------------------------- the worker and the clock
\* the ids a job of the queue can have
JobIds ==
    {trialExpirationJobId(accountId) : accountId \in AccountIds}
    \cup {generatedJobId(n) : n \in 1..MaxAutoJobs}

\* a waiting job is taken by the Worker
WorkerRuns ==
    \E jobId \in JobIds, pr \in ProviderResults : ProcessTrialExpiration(jobId, pr)

\* registration, reads and updates that leave the trial alone, the Worker and
\* the clock
LiveNext ==
    \/ CreateAccount
    \/ \E email \in Emails : Register(email)
    \/ \E accountId \in AccountIds : GetByAccountId(accountId)
    \/ \E accountId \in AccountIds, body \in UpdateAccountBodies :
            UpdateAccount(accountId, body)
    \/ \E subscriptionId \in SubscriptionIds, updates \in RaceUpdates :
            Update(subscriptionId, updates)
    \/ WorkerRuns
    \/ Tick

\* the system with a Worker that keeps taking waiting jobs and a clock that
\* keeps advancing
LiveSpec == Init /\ [][LiveNext]_vars /\ WF_vars(Tick) /\ WF_vars(WorkerRuns)

\* ------------------------------------------------------------------ claims
\* the subscription documents of an account
SubscriptionsOf(accountId) ==
    {id \in DOMAIN subscriptions : subscriptions[id].accountId = accountId}

\* the accounts register created: each has its owner among the users
Registered == {users[email].accountId : email \in DOMAIN users}

\* the job's payload names a subscription as register left it: locally
\* tracked, trialing on the pro plan, its account on trial
AsRegistered(data) ==
    /\ data.accountId \in DOMAIN accounts
    /\ accounts[data.accountId].isTrial
    /\ data.subscriptionId \in DOMAIN subscriptions
    /\ LET sub == subscriptions[data.subscriptionId]
       IN  /\ sub.accountId = data.accountId
           /\ sub.paymentProvider = "local"
           /\ sub.providerSubscriptionId = NoId
           /\ sub.status = "trialing"
           /\ sub.planType = "pro"

\* C1: when the job of a registered account runs at or after trialEnd and the
\* stored currentPeriodEnd has passed, the run ends without error and leaves
\* planType free, a status other than trialing, and isTrial false.
C1_JobDowngradesRegisteredTrial ==
    [][result'.op = "processTrialExpiration" =>
       \A jobId \in DOMAIN queue, pr \in ProviderResults :
        ( /\ ProcessTrialExpiration(jobId, pr)
          /\ AsRegistered(queue[jobId].data)
          /\ now >= DateParse(queue[jobId].data.trialEndDate)
          /\ subscriptions[queue[jobId].data.subscriptionId].currentPeriodEnd <= now )
        => ( /\ result'.error = "none"
             /\ subscriptions'[queue[jobId].data.subscriptionId].planType = "free"
             /\ subscriptions'[queue[jobId].data.subscriptionId].status # "trialing"
             /\ ~accounts'[queue[jobId].data.accountId].isTrial )]_vars

\* C2: a run with now < trialEnd changes neither subscriptions nor accounts,
\* logs no activity, and adds a waiting job with the same payload whose delay
\* is trialEnd - now.
C2_EarlyRunReschedules ==
    [][result'.op = "processTrialExpiration" =>
       \A jobId \in DOMAIN queue, pr \in ProviderResults :
        ( /\ ProcessTrialExpiration(jobId, pr)
          /\ now < DateParse(queue[jobId].data.trialEndDate) )
        => ( /\ subscriptions' = subscriptions
             /\ accounts' = accounts
             /\ activities' = activities
             /\ \E added \in (DOMAIN queue') \ (DOMAIN queue) :
                  /\ queue'[added].data = queue[jobId].data
                  /\ queue'[added].state = "delayed"
                  /\ queue'[added].delay = DateParse(queue[jobId].data.trialEndDate) - now )]_vars

C2_Witness ==
    /\ result.op = "processTrialExpiration"
    /\ result.message = "Trial not expired yet, rescheduled"
    /\ \E jobId \in DOMAIN queue :
         /\ queue[jobId].state = "delayed"
         /\ queue[jobId].data.accountId = result.accountId
         /\ queue[jobId].delay = DateParse(queue[jobId].data.trialEndDate) - now
         /\ queue[jobId].delay > 0

\* C3: the trialing subscription of a registered account belongs to an
\* account whose isTrial is true.
C3_TrialingImpliesAccountOnTrial ==
    \A id \in DOMAIN subscriptions :
        (subscriptions[id].accountId \in Registered /\ subscriptions[id].status = "trialing")
            => accounts[subscriptions[id].accountId].isTrial

C5_DuplicateEmailIsConflict ==
    [][result'.op = "register" =>
       \A email \in Emails :
        (Register(email) /\ ToLowerCase(email) \in DOMAIN users)
        => ( /\ result'.error = "ConflictError"
             /\ UNCHANGED <<accounts, users, subscriptions, queue>> )]_vars

\* C6: createSubscription for an account that has a subscription fails with
\* ConflictError, calls no payment provider and leaves the collection as it was.
C6_SecondSubscriptionIsConflict ==
    [][result'.op = "createSubscription" =>
       \A accountId \in AccountIds, planType \in PlanTypes,
          paymentProvider \in PaymentProviderNames, skipProvider \in BOOLEAN,
          pr \in ProviderResults :
        ( /\ CreateSubscription(accountId, planType, paymentProvider, skipProvider, pr)
          /\ SubscriptionsOf(accountId) # {} )
        => ( /\ result'.error = "ConflictError"
             /\ ~result'.providerCalled
             /\ subscriptions' = subscriptions )]_vars

C6_Witness ==
    /\ result.op = "createSubscription"
    /\ result.error = "ConflictError"
    /\ Cardinality(SubscriptionsOf(result.accountId)) = 1

\* C7: for every plan type, the subscription createSubscription stores with
\* skipProvider = true is trialing, names the provider 'local', has no
\* provider subscription id and cancelAtPeriodEnd false, and no provider
\* method is called.
C7_SkipProviderIsLocalTrial ==
    [][result'.op = "createSubscription" =>
       \A accountId \in AccountIds, planType \in PlanTypes,
          paymentProvider \in PaymentProviderNames, pr \in ProviderResults :
        ( /\ CreateSubscription(accountId, planType, paymentProvider, TRUE, pr)
          /\ SubscriptionsOf(accountId) = {} )
        => ( /\ result'.error = "none"
             /\ ~result'.providerCalled
             /\ \E id \in (DOMAIN subscriptions') \ (DOMAIN subscriptions) :
                  /\ subscriptions'[id].accountId = accountId
                  /\ subscriptions'[id].planType = planType
                  /\ subscriptions'[id].status = "trialing"
                  /\ subscriptions'[id].paymentProvider = "local"
                  /\ subscriptions'[id].providerSubscriptionId = NoId
                  /\ subscriptions'[id].cancelAtPeriodEnd = FALSE )]_vars

C7_Witness ==
    /\ result.op = "createSubscription"
    /\ result.error = "none"
    /\ \E id \in SubscriptionsOf(result.accountId) :
         /\ subscriptions[id].paymentProvider = "local"
         /\ subscriptions[id].planType = "enterprise"
         /\ subscriptions[id].status = "trialing"

\* C8: whatever the status, resumeSubscription on a subscription whose
\* cancelAtPeriodEnd is false fails with ConflictError, calls no payment
\* provider and leaves the subscription as it was.
C8_ResumeNeedsCancelAtPeriodEnd ==
    [][result'.op = "resumeSubscription" =>
       \A subscriptionId \in DOMAIN subscriptions, pr \in ProviderResults :
        ( /\ ResumeSubscription(subscriptionId, pr)
          /\ ~subscriptions[subscriptionId].cancelAtPeriodEnd )
        => ( /\ result'.error = "ConflictError"
             /\ ~result'.providerCalled
             /\ subscriptions' = subscriptions )]_vars

C8_Witness ==
    /\ result.op = "resumeSubscription"
    /\ result.error = "ConflictError"
    /\ \E id \in SubscriptionsOf(result.accountId) :
         /\ subscriptions[id].status = "cancelled"
         /\ ~subscriptions[id].cancelAtPeriodEnd

\* C9: a run at or after trialEnd that finds the account's subscription in a
\* status other than trialing and active ends without error and leaves
\* subscriptions, accounts and the activity log as they were.
C9_ProcessedSubscriptionIsNoOp ==
    [][result'.op = "processTrialExpiration" =>
       \A jobId \in DOMAIN queue, pr \in ProviderResults :
        ( /\ ProcessTrialExpiration(jobId, pr)
          /\ now >= DateParse(queue[jobId].data.trialEndDate)
          /\ SubscriptionsOf(queue[jobId].data.accountId) # {}
          /\ \A id \in SubscriptionsOf(queue[jobId].data.accountId) :
               subscriptions[id].status \notin {"trialing", "active"} )
        => ( /\ result'.error = "none"
             /\ subscriptions' = subscriptions
             /\ accounts' = accounts
             /\ activities' = activities )]_vars

C9_Witness ==
    /\ result.op = "processTrialExpiration"
    /\ result.message = "Subscription already processed"
    /\ result.error = "none"
    /\ \E id \in SubscriptionsOf(result.accountId) : subscriptions[id].status = "cancelled"

\* C10: a run that finds the stored currentPeriodEnd later than now ends
\* without error and leaves planType and isTrial as they were.
C10_FuturePeriodEndIsNoDowngrade ==
    [][result'.op = "processTrialExpiration" =>
       \A jobId \in DOMAIN queue, pr \in ProviderResults :
        ( /\ ProcessTrialExpiration(jobId, pr)
          /\ SubscriptionsOf(queue[jobId].data.accountId) # {}
          /\ \A id \in SubscriptionsOf(queue[jobId].data.accountId) :
               subscriptions[id].currentPeriodEnd > now )
        => ( /\ result'.error = "none"
             /\ \A id \in SubscriptionsOf(queue[jobId].data.accountId) :
                  subscriptions'[id].planType = subscriptions[id].planType
             /\ accounts'[queue[jobId].data.accountId].isTrial
                  = accounts[queue[jobId].data.accountId].isTrial )]_vars

\* ----------------------------------------------- claims: authentication
\* the stored document of an e-mail address
StoredUser(email) == users[ToLowerCase(email)]

\* C11: for a stored user with mfaEnabled = true, a secret and the right password, a
\* password login issues a token exactly when the code is valid within one
\* TOTP step of now; without a code, or with a code outside that window, it
\* fails with UnauthorizedError and issues no token.
C11_MfaCodeRequired ==
    [][result'.op = "login" =>
       \A email \in LoginEmails, password \in Passwords, mfaCode \in MfaCodes :
        ( /\ Login(email, password, mfaCode)
          /\ ToLowerCase(email) \in DOMAIN users
          /\ StoredUser(email).mfaEnabled
          /\ StoredUser(email).mfaSecret # NoId
          /\ StoredUser(email).password = hashPassword(password) )
        => IF \E d \in {-1, 0, 1} :
                mfaCode = totp(StoredUser(email).mfaSecret, (now \div TOTP_STEP) + d)
           THEN result'.error = "none" /\ result'.token # NoToken
           ELSE result'.error = "UnauthorizedError" /\ result'.token = NoToken]_vars

\* C12: a password login for an unknown e-mail and one for a known e-mail with
\* a wrong password fail with the same UnauthorizedError, issue no token and
\* record no user_logged_in activity.
C12_UnknownAndWrongAlike ==
    [][result'.op = "login" =>
       \A email \in LoginEmails, password \in Passwords, mfaCode \in MfaCodes :
        ( /\ Login(email, password, mfaCode)
          /\ \/ ToLowerCase(email) \notin DOMAIN users
             \/ StoredUser(email).password # hashPassword(password) )
        => ( /\ result'.error = "UnauthorizedError"
             /\ result'.message = "Invalid email or password"
             /\ result'.token = NoToken
             /\ activities' = activities )]_vars

C12_Witness ==
    /\ result.op = "login"
    /\ result.error = "UnauthorizedError"
    /\ result.message = "Invalid email or password"
    /\ result.token = NoToken
    /\ "a@x.com" \in DOMAIN users /\ "b@x.com" \notin DOMAIN users

\* the raw tokens requestPasswordReset has sent out
IssuedTokens == {m.token : m \in outbox}

\* a token resetPassword has to accept: its hash is stored with a user, or
\* requestPasswordReset has just handed it out
ValidResetToken(token) ==
    \/ \E e \in DOMAIN users : users[e].passwordResetToken = sha256(token)
    \/ /\ result.op = "requestPasswordReset"
       /\ result.response.resetToken = token

\* C13: resetPassword with a valid token sets the new password hash and clears
\* the stored reset token and expiry (so the token is valid once); with any
\* other token it fails with UnauthorizedError and changes no user.
C13_ResetTokenSingleUse ==
    [][result'.op = "resetPassword" =>
       \A token \in RawTokens \cup {"garbled"}, newPassword \in Passwords :
        ResetPassword(token, newPassword)
        => IF ValidResetToken(token)
           THEN /\ result'.error = "none"
                /\ \E e \in DOMAIN users :
                     /\ users'[e].password = hashPassword(newPassword)
                     /\ users'[e].passwordResetToken = NoHash
                     /\ users'[e].passwordResetExpires = NoDate
           ELSE result'.error = "UnauthorizedError" /\ users' = users]_vars

\* C14: resetPassword with a token that requestPasswordReset sent more than
\* one hour ago fails with UnauthorizedError and leaves every password as it
\* was.
C14_ResetTokenExpires ==
    [][result'.op = "resetPassword" =>
       \A token \in RawTokens, newPassword \in Passwords :
        ( /\ ResetPassword(token, newPassword)
          /\ token \in IssuedTokens
          /\ \A m \in outbox : m.token = token => now > m.at + RESET_EXPIRES )
        => ( /\ result'.error = "UnauthorizedError"
             /\ \A e \in DOMAIN users : users'[e].password = users[e].password )]_vars

\* C15: forgot-password answers a registered and an unregistered e-mail alike
\* and never hands the raw token to the caller; for an unregistered e-mail no
\* user changes and no message is sent.
C15_ForgotPasswordRevealsNothing ==
    [][result'.op = "requestPasswordReset" =>
       \A email \in LoginEmails, rawToken \in RawTokens :
        RequestPasswordReset(email, rawToken)
        => ( /\ result'.error = "none"
             /\ result'.response =
                  [message |-> "If that email exists, a reset link has been generated.",
                   resetToken |-> ""]
             /\ ToLowerCase(email) \notin DOMAIN users
                    => (users' = users /\ outbox' = outbox) )]_vars

\* ------------------------------------------------ claims: the Account model
\* C16: for an account on trial exactly one of isTrialActive and
\* isTrialExpired is true at every instant: active iff now < trialEnd, expired
\* iff now >= trialEnd; for an account not on trial both are false.
C16_ActiveXorExpired ==
    \A id \in DOMAIN accounts :
        LET a == accounts[id]
            active == isTrialActive(a, now)
            expired == isTrialExpired(a, now)
        IN  IF a.isTrial
            THEN /\ active <=> now < a.trialEndDate
                 /\ expired <=> now >= a.trialEndDate
                 /\ active # expired
            ELSE ~active /\ ~expired

C16_Witness ==
    /\ result.op = "isTrialExpired"
    /\ accounts[result.accountId].isTrial
    /\ now = accounts[result.accountId].trialEndDate
    /\ result.value
    /\ ~isTrialActive(accounts[result.accountId], now)

\* C17: for an account on trial getTrialDaysRemaining is the least whole
\* number of days that covers trialEnd - now, and 0 from trialEnd on: it is
\* never negative and is 0 exactly when now >= trialEnd; for an account not on
\* trial it is 0.
C17_DaysRemaining ==
    \A id \in DOMAIN accounts :
        LET a == accounts[id]
            days == getTrialDaysRemaining(a, now)
        IN  IF a.isTrial
            THEN /\ days >= 0
                 /\ days = 0 <=> now >= a.trialEndDate
                 /\ days > 0 => /\ (days - 1) * DAY < a.trialEndDate - now
                                /\ a.trialEndDate - now <= days * DAY
            ELSE days = 0

C17_Witness ==
    /\ result.op = "getTrialDaysRemaining"
    /\ accounts[result.accountId].isTrial
    /\ result.days = 2
    /\ accounts[result.accountId].trialEndDate - now < 2 * DAY

\* ------------------------------------------------- claims: trial lifecycle
\* C18: once an account's isTrial is false, no operation sets it back to
\* true; endTrial on an account whose trial already ended succeeds and leaves
\* isTrial false.
C18_IsTrialNeverReturns ==
    [][/\ \A id \in DOMAIN accounts :
            ~accounts[id].isTrial => (id \in DOMAIN accounts' /\ ~accounts'[id].isTrial)
       /\ ( /\ result'.op = "endTrial"
            /\ result'.accountId \in DOMAIN accounts
            /\ ~accounts[result'.accountId].isTrial )
          => result'.error = "none"]_vars

C18_Witness ==
    /\ result.op = "updateAccount"
    /\ result.error = "none"
    /\ ~accounts[result.accountId].isTrial
    /\ accounts[result.accountId].plan = "pro"

\* the jobs of an account that wait for a worker
PendingJobs(accountId) ==
    {jobId \in DOMAIN queue : /\ queue[jobId].state = "delayed"
                              /\ queue[jobId].data.accountId = accountId}

\* C19: the queue holds at most one pending trial-expiration job per account,
\* and that job has the id trial-expiration-<accountId>, also after an early
\* run has rescheduled itself.
C19_OnePendingJobUnderKey ==
    \A accountId \in AccountIds :
        /\ Cardinality(PendingJobs(accountId)) <= 1
        /\ \A jobId \in PendingJobs(accountId) : jobId = trialExpirationJobId(accountId)

RetryPolicy(jobId) ==
    /\ result'.error # "none" =>
         /\ jobId \in DOMAIN queue'
         /\ queue'[jobId].attemptsMade = queue[jobId].attemptsMade + 1
         /\ queue'[jobId].attemptsMade <= attempts
         /\ queue'[jobId].state =
              IF queue'[jobId].attemptsMade = attempts THEN "failed" ELSE "delayed"
    /\ \A other \in DOMAIN queue :
         queue[other].state = "failed" =>
            (other # jobId /\ other \in DOMAIN queue' /\ queue'[other] = queue[other])

C22_EndTrialCancelsJob ==
    [][(result'.op = "endTrial" /\ result'.error = "none")
        => (PendingJobs(result.accountId) = {})']_vars

\* C23: when createSubscription is called with skipProvider = false and the
\* payment provider fails, the call succeeds and stores a subscription that
\* is trialing, has no provider subscription id, has both period bounds at
\* now, and names the provider 'local'.
C23_ProviderFailureFallsBackToLocal ==
    [][result'.op = "createSubscription" =>
       \A accountId \in AccountIds, planType \in PlanTypes,
          paymentProvider \in PaymentProviderNames, pr \in ProviderResults :
        ( /\ CreateSubscription(accountId, planType, paymentProvider, FALSE, pr)
          /\ SubscriptionsOf(accountId) = {}
          /\ getProviderFound(paymentProvider)
          /\ ~pr.ok )
        => ( /\ result'.error = "none"
             /\ \E id \in (DOMAIN subscriptions') \ (DOMAIN subscriptions) :
                  /\ subscriptions'[id].accountId = accountId
                  /\ subscriptions'[id].status = "trialing"
                  /\ subscriptions'[id].providerSubscriptionId = NoId
                  /\ subscriptions'[id].currentPeriodStart = now
                  /\ subscriptions'[id].currentPeriodEnd = now
                  /\ subscriptions'[id].paymentProvider = "local" )]_vars

\* a value getByAccountId returned, as its JSON text
AsJSON(v) == IF "iso" \in DOMAIN v.currentPeriodEnd THEN v ELSE JSONStringify(v)

\* C24: whatever getByAccountId returns is the stored record of the account,
\* also when another getByAccountId was filling the cache while a mutation
\* ran.
C24_NoStaleRead ==
    result.op = "getByAccountId" =>
        \A v \in result.value :
            /\ v.id \in DOMAIN subscriptions
            /\ AsJSON(v) = JSONStringify(documentToModel(subscriptions[v.id]))

\* C27: an account never has two subscription records, and a
\* createSubscription call that finds the account's record in place, at its
\* check or at its insert, fails and stores nothing.
C27_OneSubscriptionPerAccount ==
    [][/\ \A accountId \in AccountIds : (Cardinality(SubscriptionsOf(accountId)) <= 1)'
       /\ ( /\ result'.op = "createSubscription"
            /\ SubscriptionsOf(result'.accountId) # {} )
          => (result'.error # "none" /\ subscriptions' = subscriptions)]_vars

C27_Witness ==
    /\ result.op = "createSubscription"
    /\ result.error = "MongoServerError"
    /\ Cardinality(SubscriptionsOf(result.accountId)) = 1

\* the owners of an account
Owners(accountId) ==
    {email \in DOMAIN users : /\ users[email].accountId = accountId
                              /\ users[email].role = "owner"}

\* C28: when a register call that created an account ends, the account has
\* exactly one owner, also when two calls for the same e-mail interleave.
C28_RegisteredAccountHasOwner ==
    [][(result'.op = "register" /\ result'.accountId # NoId)
        => (Cardinality(Owners(result.accountId)) = 1)']_vars

\* --------------------------------------------- claims: subscription changes
\* C25: for a subscription without a provider subscription id, whatever
\* provider name it stores, updatePlan succeeds without calling a payment
\* provider, sets planType and the default features of the new plan, and
\* leaves status, period bounds, cancelAtPeriodEnd and cancelledAt unchanged.
C25_LocalUpdatePlan ==
    [][result'.op = "updatePlan" =>
       \A subscriptionId \in DOMAIN subscriptions, newPlanType \in PlanTypes,
          pr \in ProviderResults :
        ( /\ UpdatePlan(subscriptionId, newPlanType, pr)
          /\ subscriptions[subscriptionId].providerSubscriptionId = NoId )
        => ( /\ result'.error = "none"
             /\ ~result'.providerCalled
             /\ subscriptions'[subscriptionId] =
                  [subscriptions[subscriptionId] EXCEPT
                      !.planType = newPlanType,
                      !.features = getDefaultFeatures(newPlanType)] )]_vars

\* C26: resumeSubscription never moves an expired subscription to active,
\* whatever its cancelAtPeriodEnd flag; for a subscription without a provider
\* subscription id that is not expired and has cancelAtPeriodEnd true it sets
\* status active, cancelAtPeriodEnd false and clears cancelledAt.
C26_ResumeOnlyCancelPending ==
    [][result'.op = "resumeSubscription" =>
       \A subscriptionId \in DOMAIN subscriptions, pr \in ProviderResults :
        ResumeSubscription(subscriptionId, pr)
        => /\ subscriptions[subscriptionId].status = "expired"
                => subscriptions'[subscriptionId].status # "active"
           /\ ( /\ subscriptions[subscriptionId].status # "expired"
                /\ subscriptions[subscriptionId].cancelAtPeriodEnd
                /\ subscriptions[subscriptionId].providerSubscriptionId = NoId )
              => ( /\ result'.error = "none"
                   /\ subscriptions'[subscriptionId].status = "active"
                   /\ ~subscriptions'[subscriptionId].cancelAtPeriodEnd
                   /\ subscriptions'[subscriptionId].cancelledAt = NoDate )]_vars

\* ------------------------------------------------ claims: the trial's end
\* C29: with a Worker that keeps running and a clock that keeps advancing,
\* the trial of every account register created ends once its trialEnd has
\* come: isTrial eventually becomes false.
C29_TrialEventuallyEnds ==
    \A accountId \in AccountIds :
        (accountId \in Registered /\ now >= accounts[accountId].trialEndDate)
            ~> (accountId \in DOMAIN accounts /\ ~accounts[accountId].isTrial)

====
